---- MODULE Spec2Model ----
(***************************************************************************)
(* Model of the build phase of the JVM function invoker buildpack          *)
(* (src/src/bin/bp_build.rs, fn build) and of its logger                   *)
(* (src/src/util/logger.rs).                                               *)
(*                                                                         *)
(* One build is a sequence of blocking steps; each step of build() that    *)
(* touches the outside world (layer metadata, network, detector process,   *)
(* manifest file) is one action.  The runtime layer (its metadata and      *)
(* runtime.jar) persists from one build to the next, everything else is    *)
(* per build.  Paths are UTF-8 strings throughout, so the to_str() checks  *)
(* of lines 60-68 and 134-136 always succeed.  Every write to the standard  *)
(* output or the standard error may fail on its own, and every such        *)
(* failure is propagated by the ? that follows the call.                   *)
(***************************************************************************)
EXTENDS Integers, Sequences, FiniteSets, TLC

(* ----------------------------- bounds -------------------------------- *)

\* Number of builds run one after the other on the same layers directory.
MaxBuilds == 2

\* Largest detector exit code tried besides the out-of-range samples.
MaxCode == 7

(* ------------------------- values and inputs ------------------------- *)

\* Option<&toml::Value>: a missing key, or a typed value.
NoValue == [type |-> "None", val |-> ""]
Str(s) == [type |-> "String", val |-> s]
Int1 == [type |-> "Integer", val |-> "1"]

RuntimeUrl == "https://x/runtime.jar"

\* buildpack.toml: metadata.runtime present or not, and its sha256 / url keys.
Configs ==
    { [runtime |-> FALSE, sha256 |-> NoValue, url |-> NoValue] } \cup
    [ runtime : {TRUE},
      sha256  : {NoValue, Str(""), Str("abc"), Int1},
      url     : {NoValue, Str(RuntimeUrl), Int1} ]

\* Layer content metadata as stored on disk (<layer>.toml).
FreshLayer ==
    [launch |-> FALSE, build |-> FALSE, cache |-> FALSE,
     runtime_jar_sha256 |-> NoValue, runtime_jar_url |-> NoValue]

\* A runtime layer restored from the cache of an earlier build.
RestoredLayers ==
    [ launch : {TRUE}, build : {FALSE}, cache : {TRUE},
      runtime_jar_sha256 : {NoValue, Str(""), Str("abc"), Str("def")},
      runtime_jar_url : {Str(RuntimeUrl)} ]

FreshFacets == [launch |-> FALSE, build |-> FALSE, cache |-> FALSE]

\* Content of runtime.jar.
NoFile == "absent"
JarBytes == "runtime jar bytes"
ErrorPage == "error page body"
Partial == "partial body"

LayersDirs == {"/layers", "/tmp/l"}

\* std::process::ExitStatus::code(): Some(i32), or None when killed by a signal.
NotRun == [ran |-> FALSE, some |-> FALSE, code |-> 0]
Exited(c) == [ran |-> TRUE, some |-> TRUE, code |-> c]
Signaled == [ran |-> TRUE, some |-> FALSE, code |-> 0]
ExitCodes == (-1 .. MaxCode) \cup {42}
ExitStatuses == {Exited(c) : c \in ExitCodes} \cup {Signaled}

\* State of <function-bundle layer>/function-bundle.toml.
ManifestStates == {"absent", "malformed", "ok"}

\* What the network and the file system do to one download.
HttpStatuses == {200, 404, 500}
NoDownload == [outcome |-> "none", status |-> 0]
DownloadOutcomes ==
    { [outcome |-> o, status |-> 0] : o \in {"request failed"} } \cup
    { [outcome |-> o, status |-> s] :
        o \in {"body failed", "create failed", "copy failed", "written"},
        s \in HttpStatuses }

NoIo == [rt_meta_writes |-> 0, fetches |-> 0, fb_meta_writes |-> 0,
         spawns |-> 0, manifest_reads |-> 0]

\* ctx.app_dir, and the detector command before it is spawned.
AppDir == "/workspace"
NotSpawned == [program |-> "", args |-> <<>>]

NoError == [header |-> "", msg |-> ""]
NoDetection == [arm |-> "none", header |-> "", msg |-> ""]

(* ------------------------------ state -------------------------------- *)

VARIABLES
    pc,                   \* position inside build(), "idle" between builds
    build_no,             \* builds started so far
    started_empty,        \* the first build found an empty runtime layer
    prev,                 \* what the previous build did (history)
    cfg,                  \* buildpack.toml of this build
    heroku_debug,         \* line 38
    layers_dir,           \* ctx.layers_dir
    rt_layer,             \* sf-fx-runtime-java content metadata on disk
    runtime_jar,          \* content of sf-fx-runtime-java/runtime.jar
    fb_layer,             \* function-bundle facets on disk
    function_bundle_toml, \* state of function-bundle/function-bundle.toml
    start,                \* runtime layer as this build found it
    buildpack_sha256,     \* line 50
    runtime_layer_sha256, \* line 54
    branch,               \* branch of line 70 taken: "none", "hit", "miss"
    dl,                   \* what happened to the download of this build
    dl_result,            \* "none", "Ok", "Err": download()'s return
    exit_status,          \* line 129-140
    detection,            \* the match arm of lines 142-180 taken
    error_call,           \* arguments of the error() call of this build
    detected,             \* header "Detected function: ..." was logged
    io,                   \* per-build counts of I/O operations
    launch,               \* data::launch::Launch built in memory
    platform_launch,      \* launch descriptors handed to the platform
    spawned,              \* program and arguments of the detector process
    result,               \* "running", "ok", "err"
    failure               \* message of the Err returned by build()

vars == <<pc, build_no, started_empty, prev, cfg, heroku_debug, layers_dir,
          rt_layer, runtime_jar, fb_layer, function_bundle_toml, start,
          buildpack_sha256, runtime_layer_sha256, branch, dl, dl_result,
          exit_status, detection, error_call, detected, io, launch,
          platform_launch, spawned, result, failure>>

layer_vars == <<rt_layer, runtime_jar, fb_layer, function_bundle_toml>>
input_vars == <<build_no, started_empty, prev, cfg, heroku_debug, layers_dir, start>>
local_vars == <<buildpack_sha256, runtime_layer_sha256>>

(* --------------------------- pure helpers ---------------------------- *)

\* Lines 59-68: the two paths the build works with.
RuntimeJarStr(dir) == dir \o "/sf-fx-runtime-java" \o "/runtime.jar"
FunctionBundleLayerString(dir) == dir \o "/function-bundle"

\* Lines 53-58: the stored fingerprint, an empty string when the key is absent.
CachedFingerprint(layer) ==
    IF layer.runtime_jar_sha256 = NoValue THEN Str("") ELSE layer.runtime_jar_sha256

\* Line 70 with the existence test of runtime.jar left out.
CacheValid_FingerprintOnly(expected, cached, exists) == expected = cached

\* Line 70: the cache-hit condition.
CacheValid(expected, cached, exists) == expected = cached /\ exists

\* The body a server sends with a status.
Body(status) == IF status = 200 THEN JarBytes ELSE ErrorPage

\* Lines 264-271: download(uri, dst) under outcome d, with dst holding jar.
\* reqwest::blocking::get(..)? fails on a transport error only; the status of
\* the response is not looked at.
download(d, jar) ==
    CASE d.outcome = "request failed" -> [result |-> "Err", jar |-> jar]
      [] d.outcome = "body failed"    -> [result |-> "Err", jar |-> jar]
      [] d.outcome = "create failed"  -> [result |-> "Err", jar |-> jar]
      [] d.outcome = "copy failed"    -> [result |-> "Err", jar |-> Partial]
      [] d.outcome = "written"        -> [result |-> "Ok", jar |-> Body(d.status)]

\* Lines 232-241: error(header, msg) always returns Err: the io::Error of a
\* failed write to stderr, or else anyhow!(header).
error(header, stderr_ok) == IF stderr_ok THEN header ELSE "stderr write failed"

\* Lines 143-178 with the internal range written 3..=5.
DetectOutcome_ShortRange(code) ==
    CASE code = 0 ->
           [arm |-> "0", header |-> "", msg |-> ""]
      [] code = 1 ->
           [arm |-> "1", header |-> "No functions found",
            msg |-> "Your project does not seem to contain any Java functions."]
      [] code = 2 ->
           [arm |-> "2", header |-> "Multiple functions found",
            msg |-> "Your project contains multiple Java functions."]
      [] code >= 3 /\ code <= 5 ->
           [arm |-> "3..=6", header |-> "Detection failed",
            msg |-> "Function detection failed with internal error \""
                    \o ToString(code) \o "\""]
      [] OTHER ->
           [arm |-> "_", header |-> "Detection failed",
            msg |-> "Function detection failed with unexpected error code "
                    \o ToString(code) \o "."]

\* Lines 143-178 with code 2 sharing the arm of code 0.
DetectOutcome_TwoSucceeds(code) ==
    CASE code = 0 \/ code = 2 ->
           [arm |-> "0", header |-> "", msg |-> ""]
      [] code = 1 ->
           [arm |-> "1", header |-> "No functions found",
            msg |-> "Your project does not seem to contain any Java functions."]
      [] code >= 3 /\ code <= 6 ->
           [arm |-> "3..=6", header |-> "Detection failed",
            msg |-> "Function detection failed with internal error \""
                    \o ToString(code) \o "\""]
      [] OTHER ->
           [arm |-> "_", header |-> "Detection failed",
            msg |-> "Function detection failed with unexpected error code "
                    \o ToString(code) \o "."]

\* Lines 143-178: the match on the detector's exit code.  A message body of
\* several lines is given by its first line.
DetectOutcome(code) ==
    CASE code = 0 ->
           [arm |-> "0", header |-> "", msg |-> ""]
      [] code = 1 ->
           [arm |-> "1", header |-> "No functions found",
            msg |-> "Your project does not seem to contain any Java functions."]
      [] code = 2 ->
           [arm |-> "2", header |-> "Multiple functions found",
            msg |-> "Your project contains multiple Java functions."]
      [] code >= 3 /\ code <= 6 ->
           [arm |-> "3..=6", header |-> "Detection failed",
            msg |-> "Function detection failed with internal error \""
                    \o ToString(code) \o "\""]
      [] OTHER ->
           [arm |-> "_", header |-> "Detection failed",
            msg |-> "Function detection failed with unexpected error code "
                    \o ToString(code) \o "."]

\* Lines 142 and 180: without an exit code the match is skipped altogether.
NoCodeOutcome == [arm |-> "no code", header |-> "", msg |-> ""]

\* Lines 182-184 with a parse that accepts any file that exists.
ParseManifest_Lenient(file) ==
    CASE file = "absent" -> "read of function-bundle.toml failed"
      [] OTHER           -> "ok"

\* Lines 182-184: fs::read(..)? then toml::from_slice(..)?.
ParseManifest(file) ==
    CASE file = "absent"    -> "read of function-bundle.toml failed"
      [] file = "malformed" -> "function-bundle.toml is not a FunctionBundleToml"
      [] OTHER              -> "ok"

\* Lines 129-138 with the app dir and the layer path exchanged.
DetectorCommand_Swapped(jar_str, app_dir, fb_str) ==
    [program |-> "java", args |-> <<"-jar", jar_str, "bundle", fb_str, app_dir>>]

\* Lines 129-138: Command::new("java").args(&["-jar", jar, "bundle", app, layer]).
DetectorCommand(jar_str, app_dir, fb_str) ==
    [program |-> "java", args |-> <<"-jar", jar_str, "bundle", app_dir, fb_str>>]

\* Lines 243-251 returning an error whenever the flag is set.
\* Lines 243-251: debug(msg, debug) writes to stdout only when the flag is set.
debug(enabled, stdout_ok) == IF enabled /\ ~stdout_ok THEN "Err" ELSE "Ok"

\* Lines 215-222: header(msg) writes to stdout and fails when the write does.
header(stdout_ok) == IF stdout_ok THEN "Ok" ELSE "Err"

\* Lines 224-230: info(msg) writes to stdout and fails when the write does.
info(stdout_ok) == IF stdout_ok THEN "Ok" ELSE "Err"

\* Lines 201-204: the format! of the launch command; the Rust literal
\* "\\${{PORT:-8080}}" is a backslash followed by ${PORT:-8080}.
LaunchCommand(jar_str, fb_str) ==
    "java -jar " \o jar_str \o " serve " \o fb_str \o " -p \\${PORT:-8080}"

\* Lines 205-210: Process::new("web", cmd, &[], false).
WebProcess(cmd) == [type |-> "web", command |-> cmd, args |-> <<>>, direct |-> FALSE]

(* ------------------------------ actions ------------------------------ *)

Init ==
    /\ pc = "idle"
    /\ build_no = 0
    /\ \/ rt_layer = FreshLayer /\ runtime_jar = NoFile
       \/ rt_layer \in RestoredLayers /\ runtime_jar \in {NoFile, JarBytes}
    /\ started_empty = (rt_layer = FreshLayer)
    /\ prev = [fetches |-> 0, downloaded |-> FALSE, same_descriptor |-> FALSE]
    /\ cfg = [runtime |-> FALSE, sha256 |-> NoValue, url |-> NoValue]
    /\ heroku_debug = FALSE
    /\ layers_dir \in LayersDirs
    /\ fb_layer = FreshFacets
    /\ function_bundle_toml = "absent"
    /\ start = [layer |-> rt_layer, jar |-> runtime_jar]
    /\ buildpack_sha256 = NoValue
    /\ runtime_layer_sha256 = NoValue
    /\ branch = "none"
    /\ dl = NoDownload
    /\ dl_result = "none"
    /\ exit_status = NotRun
    /\ detection = NoDetection
    /\ error_call = NoError
    /\ detected = FALSE
    /\ io = NoIo
    /\ launch = <<>>
    /\ platform_launch = <<>>
    /\ spawned = NotSpawned
    /\ result = "running"
    /\ failure = ""

\* A ? or a final Err: build() returns the error.  Messages are the
\* anyhow! texts of the source without their backquotes.
Fail(message) ==
    /\ pc' = "done"
    /\ result' = "err"
    /\ failure' = message

\* The platform starts build(ctx) (line 32): a new buildpack.toml and
\* environment, the runtime layer as the last build left it, and a
\* function-bundle layer that is not kept between builds (cache = false).
StartBuild ==
    /\ pc \in {"idle", "done"}
    /\ build_no < MaxBuilds
    /\ build_no' = build_no + 1
    /\ cfg' \in Configs
    /\ heroku_debug' \in BOOLEAN
    /\ prev' = [fetches |-> io.fetches,
                downloaded |-> dl_result = "Ok" /\ dl.status = 200,
                same_descriptor |-> build_no > 0 /\ cfg' = cfg]
    /\ start' = [layer |-> rt_layer, jar |-> runtime_jar]
    /\ fb_layer' = FreshFacets
    /\ function_bundle_toml' = "absent"
    /\ pc' = "read_config"
    /\ buildpack_sha256' = NoValue
    /\ runtime_layer_sha256' = NoValue
    /\ branch' = "none"
    /\ dl' = NoDownload
    /\ dl_result' = "none"
    /\ exit_status' = NotRun
    /\ detection' = NoDetection
    /\ error_call' = NoError
    /\ detected' = FALSE
    /\ io' = NoIo
    /\ launch' = <<>>
    /\ platform_launch' = <<>>
    /\ spawned' = NotSpawned
    /\ result' = "running"
    /\ failure' = ""
    /\ UNCHANGED <<started_empty, layers_dir, rt_layer, runtime_jar>>

\* Lines 38-68: the first header, the layers, buildpack.toml and its keys.
ReadConfig ==
    /\ pc = "read_config"
    /\ \E stdout_ok \in BOOLEAN, fs_ok \in BOOLEAN :
         IF header(stdout_ok) = "Err" THEN
            Fail("stdout write failed") /\ UNCHANGED local_vars
         ELSE IF ~fs_ok THEN
            Fail("io error") /\ UNCHANGED local_vars
         ELSE IF ~cfg.runtime THEN
            Fail("buildpack.toml does not have metadata.runtime key")
            /\ UNCHANGED local_vars
         ELSE IF cfg.sha256 = NoValue THEN
            Fail("buildpack.toml does not have metadata.runtime.sha256 key")
            /\ UNCHANGED local_vars
         ELSE
            /\ buildpack_sha256' = cfg.sha256
            /\ runtime_layer_sha256' = CachedFingerprint(rt_layer)
            /\ pc' = "cache_check"
            /\ UNCHANGED <<result, failure>>
    /\ UNCHANGED <<input_vars, layer_vars, branch, dl, dl_result, exit_status,
                   detection, error_call, detected, io, launch, platform_launch, spawned>>

\* Lines 70-72 without the else: the block of line 73 runs after a hit too.
CacheCheck_FallThrough ==
    /\ pc = "cache_check"
    /\ IF CacheValid(buildpack_sha256, runtime_layer_sha256, runtime_jar # NoFile)
       THEN
          /\ branch' = "hit"
          /\ \E stdout_ok \in BOOLEAN :
               IF info(stdout_ok) = "Err" THEN
                  Fail("stdout write failed")
               ELSE
                  pc' = "rt_metadata" /\ UNCHANGED <<result, failure>>
       ELSE
          /\ branch' = "miss"
          /\ pc' = "rt_metadata"
          /\ UNCHANGED <<result, failure>>
    /\ UNCHANGED <<input_vars, layer_vars, local_vars, dl, dl_result, exit_status,
                   detection, error_call, detected, io, launch, platform_launch,
                   spawned>>

\* Lines 70-72: the cache check; on a hit the info line of line 71 is written
\* and the whole else block is skipped.
CacheCheck ==
    /\ pc = "cache_check"
    /\ IF CacheValid(buildpack_sha256, runtime_layer_sha256, runtime_jar # NoFile)
       THEN
          /\ branch' = "hit"
          /\ \E stdout_ok \in BOOLEAN :
               IF info(stdout_ok) = "Err" THEN
                  Fail("stdout write failed")
               ELSE
                  pc' = "assemble" /\ UNCHANGED <<result, failure>>
       ELSE
          /\ branch' = "miss"
          /\ pc' = "rt_metadata"
          /\ UNCHANGED <<result, failure>>
    /\ UNCHANGED <<input_vars, layer_vars, local_vars, dl, dl_result, exit_status,
                   detection, error_call, detected, io, launch, platform_launch,
                   spawned>>

\* Lines 73-90 with the result of write_content_metadata() dropped (no ?).
WriteRuntimeMetadataWith_IgnoreFailure(dbg) ==
    /\ pc = "rt_metadata"
    /\ \E stdout_ok \in BOOLEAN :
       IF debug(dbg, stdout_ok) = "Err" THEN
          /\ Fail("stdout write failed")
          /\ UNCHANGED <<rt_layer, io>>
       ELSE IF cfg.url = NoValue THEN
          /\ Fail("buildpack.toml does not have metadata.runtime.url key")
          /\ UNCHANGED <<rt_layer, io>>
       ELSE
          \E fs_ok \in BOOLEAN :
            /\ IF fs_ok THEN
                  /\ rt_layer' = [rt_layer EXCEPT !.launch = TRUE, !.build = FALSE,
                                                  !.cache = TRUE,
                                                  !.runtime_jar_url = cfg.url]
                  /\ io' = [io EXCEPT !.rt_meta_writes = @ + 1]
               ELSE
                  UNCHANGED <<rt_layer, io>>
            /\ pc' = "download"
            /\ UNCHANGED <<result, failure>>
    /\ UNCHANGED <<input_vars, runtime_jar, fb_layer, function_bundle_toml,
                   local_vars, branch, dl, dl_result, exit_status, detection,
                   error_call, detected, launch, platform_launch, spawned>>

\* Lines 73-90 for a value dbg of the debug flag: the debug line, whose
\* write may fail when the flag is set, then facets and url of the runtime
\* layer, written to disk.
WriteRuntimeMetadataWith(dbg) ==
    /\ pc = "rt_metadata"
    /\ \E stdout_ok \in BOOLEAN :
       IF debug(dbg, stdout_ok) = "Err" THEN
          /\ Fail("stdout write failed")
          /\ UNCHANGED <<rt_layer, io>>
       ELSE IF cfg.url = NoValue THEN
          /\ Fail("buildpack.toml does not have metadata.runtime.url key")
          /\ UNCHANGED <<rt_layer, io>>
       ELSE
          \E fs_ok \in BOOLEAN :
            IF fs_ok THEN
               /\ rt_layer' = [rt_layer EXCEPT !.launch = TRUE, !.build = FALSE,
                                               !.cache = TRUE,
                                               !.runtime_jar_url = cfg.url]
               /\ io' = [io EXCEPT !.rt_meta_writes = @ + 1]
               /\ pc' = "download"
               /\ UNCHANGED <<result, failure>>
            ELSE
               Fail("io error") /\ UNCHANGED <<rt_layer, io>>
    /\ UNCHANGED <<input_vars, runtime_jar, fb_layer, function_bundle_toml,
                   local_vars, branch, dl, dl_result, exit_status, detection,
                   error_call, detected, launch, platform_launch, spawned>>

\* Lines 73-90 as build() runs them, with heroku_debug of line 38.
WriteRuntimeMetadata == WriteRuntimeMetadataWith(heroku_debug)

\* Lines 92-107 for a value dbg of the debug flag: the debug line of line
\* 92 and the info line of line 94, the url as a string, the download into
\* runtime.jar, then the info line of line 107.
DownloadWith(dbg) ==
    /\ pc = "download"
    /\ \E debug_ok \in BOOLEAN, start_ok \in BOOLEAN :
       IF debug(dbg, debug_ok) = "Err" \/ info(start_ok) = "Err" THEN
          /\ Fail("stdout write failed")
          /\ UNCHANGED <<runtime_jar, dl, dl_result, io, error_call>>
       ELSE IF cfg.url.type # "String" THEN
          /\ Fail("buildpack.toml's metadata.runtime.url is not a string")
          /\ UNCHANGED <<runtime_jar, dl, dl_result, io, error_call>>
       ELSE
          \E d \in DownloadOutcomes, stderr_ok \in BOOLEAN, done_ok \in BOOLEAN :
            LET r == download(d, runtime_jar) IN
            /\ runtime_jar' = r.jar
            /\ dl' = d
            /\ dl_result' = r.result
            /\ io' = [io EXCEPT !.fetches = @ + 1]
            /\ IF r.result = "Ok" THEN
                  /\ IF info(done_ok) = "Err"
                     THEN Fail("stdout write failed")
                     ELSE pc' = "fb_metadata" /\ UNCHANGED <<result, failure>>
                  /\ UNCHANGED error_call
               ELSE
                  /\ error_call' =
                       [header |-> "Download of function runtime failed",
                        msg |-> "We couldn't download the function runtime at \""
                                \o cfg.url.val \o "\"."]
                  /\ Fail(error("Download of function runtime failed", stderr_ok))
    /\ UNCHANGED <<input_vars, rt_layer, fb_layer, function_bundle_toml,
                   local_vars, branch, exit_status, detection, detected, launch,
                   platform_launch, spawned>>

\* Lines 92-107 as build() runs them, with heroku_debug of line 38.
Download == DownloadWith(heroku_debug)

\* Lines 119-127: the info line of line 119 and the header of line 121, then
\* the facets of the function-bundle layer, written to disk.
WriteBundleMetadata ==
    /\ pc = "fb_metadata"
    /\ \E info_ok \in BOOLEAN, header_ok \in BOOLEAN, fs_ok \in BOOLEAN :
         IF info(info_ok) = "Err" \/ header(header_ok) = "Err" THEN
            Fail("stdout write failed") /\ UNCHANGED <<fb_layer, io>>
         ELSE IF fs_ok THEN
            /\ fb_layer' = [launch |-> TRUE, build |-> FALSE, cache |-> FALSE]
            /\ io' = [io EXCEPT !.fb_meta_writes = @ + 1]
            /\ pc' = "spawn"
            /\ UNCHANGED <<result, failure>>
         ELSE
            Fail("io error") /\ UNCHANGED <<fb_layer, io>>
    /\ UNCHANGED <<input_vars, rt_layer, runtime_jar, function_bundle_toml,
                   local_vars, branch, dl, dl_result, exit_status, detection,
                   error_call, detected, launch, platform_launch, spawned>>

\* Lines 129-139: java -jar <runtime.jar> bundle <app dir> <layer> is
\* spawned; spawn() may fail before any process exists.
SpawnDetector ==
    /\ pc = "spawn"
    /\ \E spawn_ok \in BOOLEAN :
         IF spawn_ok THEN
            /\ spawned' = DetectorCommand(RuntimeJarStr(layers_dir), AppDir,
                                           FunctionBundleLayerString(layers_dir))
            /\ io' = [io EXCEPT !.spawns = @ + 1]
            /\ pc' = "wait"
            /\ UNCHANGED <<result, failure>>
         ELSE
            Fail("io error") /\ UNCHANGED <<io, spawned>>
    /\ UNCHANGED <<input_vars, layer_vars, local_vars, branch, dl, dl_result,
                   exit_status, detection, error_call, detected, launch,
                   platform_launch>>

\* Line 140: build() blocks in wait() while the detector runs; the detector
\* may leave any function-bundle.toml behind, and wait() may fail.
WaitDetector ==
    /\ pc = "wait"
    /\ \E m \in ManifestStates, wait_ok \in BOOLEAN :
         /\ function_bundle_toml' = m
         /\ IF wait_ok THEN
               \E st \in ExitStatuses :
                 /\ exit_status' = st
                 /\ pc' = "classify"
                 /\ UNCHANGED <<result, failure>>
            ELSE
               Fail("io error") /\ UNCHANGED exit_status
    /\ UNCHANGED <<input_vars, rt_layer, runtime_jar, fb_layer, local_vars,
                   branch, dl, dl_result, detection, error_call, detected, io,
                   launch, platform_launch, spawned>>

\* Lines 142-180: the exit code, when there is one, is matched; arm 0 writes
\* the info line of line 145, every other arm calls error().
ClassifyExit ==
    /\ pc = "classify"
    /\ IF exit_status.some THEN
          LET o == DetectOutcome(exit_status.code) IN
          /\ detection' = o
          /\ IF o.arm = "0" THEN
                /\ \E stdout_ok \in BOOLEAN :
                     IF info(stdout_ok) = "Err"
                     THEN Fail("stdout write failed")
                     ELSE pc' = "read_manifest" /\ UNCHANGED <<result, failure>>
                /\ UNCHANGED error_call
             ELSE
                \E stderr_ok \in BOOLEAN :
                  /\ error_call' = [header |-> o.header, msg |-> o.msg]
                  /\ Fail(error(o.header, stderr_ok))
       ELSE
          /\ detection' = NoCodeOutcome
          /\ pc' = "read_manifest"
          /\ UNCHANGED <<error_call, result, failure>>
    /\ UNCHANGED <<input_vars, layer_vars, local_vars, branch, dl, dl_result,
                   exit_status, detected, io, launch, platform_launch, spawned>>

\* Lines 182-197: function-bundle.toml is read and parsed, then reported with
\* the header of line 186 and the info lines of lines 190 and 194; detected
\* records that the header was written.
ReadManifest ==
    /\ pc = "read_manifest"
    /\ io' = [io EXCEPT !.manifest_reads = @ + 1]
    /\ LET r == ParseManifest(function_bundle_toml) IN
       IF r = "ok" THEN
          \E header_ok \in BOOLEAN, payload_ok \in BOOLEAN, return_ok \in BOOLEAN :
            IF header(header_ok) = "Err" THEN
               Fail("stdout write failed") /\ UNCHANGED detected
            ELSE
               /\ detected' = TRUE
               /\ IF info(payload_ok) = "Err" \/ info(return_ok) = "Err"
                  THEN Fail("stdout write failed")
                  ELSE pc' = "assemble" /\ UNCHANGED <<result, failure>>
       ELSE
          Fail(r) /\ UNCHANGED detected
    /\ UNCHANGED <<input_vars, layer_vars, local_vars, branch, dl, dl_result,
                   exit_status, detection, error_call, launch, platform_launch, spawned>>

\* Lines 200-212: the launch value is built and dropped; Ok(()) is returned.
AssembleLaunch ==
    /\ pc = "assemble"
    /\ launch' = Append(launch,
                   WebProcess(LaunchCommand(RuntimeJarStr(layers_dir),
                                            FunctionBundleLayerString(layers_dir))))
    /\ result' = "ok"
    /\ pc' = "done"
    /\ UNCHANGED <<input_vars, layer_vars, local_vars, branch, dl, dl_result,
                   exit_status, detection, error_call, detected, io,
                   platform_launch, spawned, failure>>

Next ==
    \/ StartBuild
    \/ ReadConfig
    \/ CacheCheck
    \/ WriteRuntimeMetadata
    \/ Download
    \/ WriteBundleMetadata
    \/ SpawnDetector
    \/ WaitDetector
    \/ ClassifyExit
    \/ ReadManifest
    \/ AssembleLaunch

Spec == Init /\ [][Next]_vars

(* ------------------------------ claims ------------------------------- *)

\* C1: once the build has passed the cache check, it took the cache-hit
\* branch (and then fetched and wrote nothing) if and only if the configured
\* fingerprint equals the fingerprint the layer held when the build started
\* (the empty string when none was stored) and runtime.jar existed; in the
\* three other combinations it took the fetch branch.
C1_CacheGateTruthTable ==
    branch # "none" =>
      LET stored == IF start.layer.runtime_jar_sha256 = NoValue
                    THEN Str("") ELSE start.layer.runtime_jar_sha256
          match  == cfg.sha256 = stored
          exists == start.jar # NoFile
      IN /\ (branch = "hit") <=> (match /\ exists)
         /\ (branch = "miss") <=> ~(match /\ exists)
         /\ branch = "hit" => io.fetches = 0 /\ io.rt_meta_writes = 0

C1_Witness ==
    /\ branch = "hit"
    /\ cfg.sha256 = Str("abc")
    /\ start.layer.runtime_jar_sha256 = Str("abc")
    /\ start.jar = JarBytes
    /\ result = "ok"

\* C2: the second of two builds with the same descriptor, started from an
\* empty runtime layer and with the first download successful, fetches
\* nothing and writes no runtime layer metadata.
C2_SecondBuildIsCacheHit ==
    (build_no = 2 /\ started_empty /\ prev.same_descriptor /\ prev.downloaded)
      => (io.fetches = 0 /\ io.rt_meta_writes = 0)

\* C3: no build reaches launch assembly or returns success without having
\* spawned the detector and read a manifest in that build.
C3_DetectionBeforeLaunch ==
    (pc = "assemble" \/ launch # <<>> \/ result = "ok")
      => (io.spawns = 1 /\ io.manifest_reads = 1)

\* C4 as stated: every integer exit code takes exactly the outcome of the
\* table: 0 proceeds to the manifest, 1 is "No functions found", 2 is
\* "Multiple functions found", 3..6 are "Detection failed" as an internal
\* error with the code, anything else "Detection failed" as an unexpected
\* error with the code.
C4_ExitCodeClassification ==
    (exit_status.some /\ pc # "classify") =>
      LET c == exit_status.code IN
      /\ c = 0 =>
           /\ detection.arm = "0"
           /\ error_call = NoError
           /\ pc = "read_manifest" \/ io.manifest_reads = 1
      /\ c = 1 =>
           /\ detection.arm = "1"
           /\ result = "err"
           /\ error_call.header = "No functions found"
      /\ c = 2 =>
           /\ detection.arm = "2"
           /\ result = "err"
           /\ error_call.header = "Multiple functions found"
      /\ c \in 3..6 =>
           /\ detection.arm = "3..=6"
           /\ result = "err"
           /\ error_call.header = "Detection failed"
           /\ error_call.msg = "Function detection failed with internal error \""
                               \o ToString(c) \o "\""
      /\ c \notin 0..6 =>
           /\ detection.arm = "_"
           /\ result = "err"
           /\ error_call.header = "Detection failed"
           /\ error_call.msg = "Function detection failed with unexpected error code "
                               \o ToString(c) \o "."

\* C4 as the code has it: the table above, except that code 0 proceeds to
\* the manifest only when the info line of line 145 is written; when that
\* write fails the build ends with the write error, no error() call and the
\* manifest unread.
C4_ExitCodeClassificationUnlessLogFails ==
    (exit_status.some /\ pc # "classify") =>
      LET c == exit_status.code IN
      /\ c = 0 =>
           /\ detection.arm = "0"
           /\ error_call = NoError
           /\ \/ pc = "read_manifest"
              \/ io.manifest_reads = 1
              \/ /\ pc = "done"
                 /\ result = "err"
                 /\ failure = "stdout write failed"
                 /\ io.manifest_reads = 0
      /\ c = 1 =>
           /\ detection.arm = "1"
           /\ result = "err"
           /\ error_call.header = "No functions found"
      /\ c = 2 =>
           /\ detection.arm = "2"
           /\ result = "err"
           /\ error_call.header = "Multiple functions found"
      /\ c \in 3..6 =>
           /\ detection.arm = "3..=6"
           /\ result = "err"
           /\ error_call.header = "Detection failed"
           /\ error_call.msg = "Function detection failed with internal error \""
                               \o ToString(c) \o "\""
      /\ c \notin 0..6 =>
           /\ detection.arm = "_"
           /\ result = "err"
           /\ error_call.header = "Detection failed"
           /\ error_call.msg = "Function detection failed with unexpected error code "
                               \o ToString(c) \o "."

C4_Witness ==
    /\ exit_status = Exited(0)
    /\ detection.arm = "0"
    /\ pc = "done"
    /\ failure = "stdout write failed"
    /\ io.manifest_reads = 0

\* C5: a detector killed by a signal (no exit code) makes the build fail
\* with the unexpected detection error, without reading the manifest.
C5_SignalIsUnexpectedError ==
    (exit_status = Signaled /\ pc # "classify") =>
      /\ result = "err"
      /\ error_call.header = "Detection failed"
      /\ io.manifest_reads = 0

\* C6: after a non-zero exit code the build has failed, the manifest was not
\* read, no launch descriptor was assembled and the detector ran once; code
\* 2 is reported as "Multiple functions found".
C6_NonZeroExitIsFatal ==
    (exit_status.some /\ exit_status.code # 0) =>
      /\ io.spawns = 1
      /\ io.manifest_reads = 0
      /\ launch = <<>>
      /\ pc \in {"classify", "done"}
      /\ pc = "done" => result = "err"
      /\ (pc = "done" /\ exit_status.code = 2)
           => error_call.header = "Multiple functions found"

C6_Witness ==
    /\ exit_status = Exited(2)
    /\ function_bundle_toml = "ok"
    /\ pc = "done"
    /\ failure = "Multiple functions found"

\* C7 as stated: after exit code 0 with function-bundle.toml absent or
\* malformed, the build has failed with a manifest read or parse error,
\* which is none of the failures of the exit codes; no function was reported
\* and no launch descriptor assembled.
C7_BadManifestIsFatal ==
    (exit_status = Exited(0) /\ function_bundle_toml # "ok"
       /\ pc \notin {"classify", "read_manifest"}) =>
      /\ pc = "done"
      /\ result = "err"
      /\ failure \in {"read of function-bundle.toml failed",
                      "function-bundle.toml is not a FunctionBundleToml"}
      /\ \A c \in ExitCodes, ok \in BOOLEAN :
           failure # error(DetectOutcome(c).header, ok)
      /\ error_call = NoError
      /\ ~detected
      /\ launch = <<>>

\* C7 as the code has it: after exit code 0 with function-bundle.toml absent
\* or malformed the build has failed, no function was reported and no launch
\* descriptor assembled; once the manifest was read the failure is a manifest
\* read or parse error, none of the failures of the exit codes, and otherwise
\* it is the failed write of the info line of line 145.
C7_BadManifestOrLogIsFatal ==
    (exit_status = Exited(0) /\ function_bundle_toml # "ok"
       /\ pc \notin {"classify", "read_manifest"}) =>
      /\ pc = "done"
      /\ result = "err"
      /\ IF io.manifest_reads = 1 THEN
            /\ failure \in {"read of function-bundle.toml failed",
                            "function-bundle.toml is not a FunctionBundleToml"}
            /\ \A c \in ExitCodes, ok \in BOOLEAN :
                 failure # error(DetectOutcome(c).header, ok)
         ELSE
            /\ io.manifest_reads = 0
            /\ failure = "stdout write failed"
      /\ error_call = NoError
      /\ ~detected
      /\ launch = <<>>

C7_Witness ==
    /\ exit_status = Exited(0)
    /\ function_bundle_toml = "absent"
    /\ pc = "done"
    /\ io.manifest_reads = 1

\* C8: the assembled command is "java -jar R serve U -p ${PORT:-8080}" with
\* nothing added before, inside or after the placeholder.
C8_LaunchCommandVerbatim ==
    launch # <<>> =>
      launch[1].command =
        "java -jar " \o RuntimeJarStr(layers_dir) \o " serve "
          \o FunctionBundleLayerString(layers_dir) \o " -p ${PORT:-8080}"

\* C9: a successful build has handed exactly one launch descriptor, with one
\* "web" process, to the platform; a failed build has handed over none.
C9_SuccessHandsOverLaunch ==
    /\ result = "ok" =>
         /\ Len(platform_launch) = 1
         /\ platform_launch[1].type = "web"
    /\ result = "err" => platform_launch = <<>>

\* C10: a download whose request failed, whose response had a non-success
\* status or whose file could not be written returns an error.
C10_FetchFailsOnBadStatus ==
    (dl.outcome # "none" /\ (dl.outcome # "written" \/ dl.status \notin 200..299))
      => dl_result = "Err"

\* C11: when the fetch fails (the request fails, the response has a
\* non-success status or the file cannot be written), the build has stopped
\* with the failure titled "Download of function runtime failed" after one
\* fetch, without spawning the detector or assembling a launch descriptor.
C11_FetchFailureAborts ==
    (dl.outcome # "none" /\ (dl.outcome # "written" \/ dl.status \notin 200..299))
      => /\ pc = "done"
         /\ result = "err"
         /\ error_call.header = "Download of function runtime failed"
         /\ io.fetches = 1
         /\ io.spawns = 0
         /\ launch = <<>>

\* C12: a build whose buildpack.toml lacks metadata.runtime.url or
\* metadata.runtime.sha256 never reaches launch assembly, never succeeds and
\* makes no network request, whatever the runtime layer holds.
C12_MissingKeyAlwaysFails ==
    (build_no > 0
       /\ (~cfg.runtime \/ cfg.url = NoValue \/ cfg.sha256 = NoValue))
      => /\ pc # "assemble"
         /\ result # "ok"
         /\ io.fetches = 0

\* C13: in runs that start from an empty runtime layer, a build that ends
\* has changed runtime.jar exactly when it has changed the recorded
\* fingerprint, and the layer never holds the expected fingerprint while
\* runtime.jar is missing.
C13_FileAndFingerprintPaired ==
    started_empty =>
      /\ pc = "done" =>
           ((runtime_jar # start.jar)
              <=> (rt_layer.runtime_jar_sha256 # start.layer.runtime_jar_sha256))
      /\ ~(/\ build_no > 0
           /\ rt_layer.runtime_jar_sha256 # NoValue
           /\ rt_layer.runtime_jar_sha256 = cfg.sha256
           /\ runtime_jar = NoFile)

\* C14: after a cache hit the runtime layer (facets, metadata map and
\* runtime.jar) is as the build found it, no metadata of it was written and
\* nothing was fetched.
C14_CacheHitLeavesLayer ==
    branch = "hit" =>
      /\ rt_layer = start.layer
      /\ runtime_jar = start.jar
      /\ io.rt_meta_writes = 0
      /\ io.fetches = 0
      /\ dl = NoDownload

C14_Witness ==
    /\ branch = "hit"
    /\ pc = "done"
    /\ build_no = 2
    /\ start.layer.runtime_jar_url = Str(RuntimeUrl)
    /\ rt_layer = start.layer

\* C15: whenever the fetch is about to start or has started, the build is on
\* the miss branch and the runtime layer's metadata has been written once,
\* with launch = true, build = false, cache = true and the configured url;
\* without that write no fetch happens.
C15_MetadataBeforeFetch ==
    /\ (pc = "download" \/ io.fetches > 0) =>
         /\ branch = "miss"
         /\ io.rt_meta_writes = 1
         /\ rt_layer.launch /\ ~rt_layer.build /\ rt_layer.cache
         /\ rt_layer.runtime_jar_url = cfg.url
    /\ io.rt_meta_writes = 0 => (io.fetches = 0 /\ dl = NoDownload)

C15_Witness ==
    /\ start.layer = FreshLayer
    /\ io.rt_meta_writes = 1
    /\ io.fetches = 1
    /\ dl_result = "Ok"
    /\ rt_layer.cache

\* C16 as stated: whenever the detector has been spawned, the
\* function-bundle facets were written as launch = true, build = false,
\* cache = false and its arguments are (runtime artifact path, "bundle",
\* app dir, function-bundle layer path).
C16_DetectorArguments ==
    io.spawns > 0 =>
      /\ fb_layer = [launch |-> TRUE, build |-> FALSE, cache |-> FALSE]
      /\ io.fb_meta_writes = 1
      /\ spawned.args = <<RuntimeJarStr(layers_dir), "bundle", AppDir,
                          FunctionBundleLayerString(layers_dir)>>

\* C16 as amended: whenever the detector is about to be or has been spawned,
\* the function-bundle facets were written as launch = true, build = false,
\* cache = false; it is spawned as the program java with the arguments
\* (-jar, runtime artifact path, "bundle", app dir, function-bundle layer
\* path), and never without that write.
C16_DetectorArgumentsAfterJar ==
    /\ (pc = "spawn" \/ io.spawns > 0) =>
         /\ fb_layer = [launch |-> TRUE, build |-> FALSE, cache |-> FALSE]
         /\ io.fb_meta_writes = 1
    /\ io.spawns > 0 =>
         /\ spawned.program = "java"
         /\ spawned.args = <<"-jar", RuntimeJarStr(layers_dir), "bundle", AppDir,
                             FunctionBundleLayerString(layers_dir)>>
    /\ io.fb_meta_writes = 0 => (io.spawns = 0 /\ spawned = NotSpawned)

C16_Witness ==
    /\ io.spawns = 1
    /\ spawned.args[2] = "/layers/sf-fx-runtime-java/runtime.jar"
    /\ spawned.args[5] = "/layers/function-bundle"
    /\ fb_layer.launch

\* C17: a build that failed with a configuration error (a missing key or a
\* url that is not a string) has written no layer metadata, fetched nothing
\* and spawned nothing.
C17_ConfigErrorBeforeIo ==
    (result = "err"
       /\ failure \in {"buildpack.toml does not have metadata.runtime key",
                       "buildpack.toml does not have metadata.runtime.sha256 key",
                       "buildpack.toml does not have metadata.runtime.url key",
                       "buildpack.toml's metadata.runtime.url is not a string"})
      => /\ io = NoIo
         /\ rt_layer = start.layer
         /\ runtime_jar = start.jar

\* C18: when the runtime layer holds no stored fingerprint, the cache check
\* is a miss for every configured fingerprint, the empty string included.
C18_AbsentFingerprintNeverHits ==
    (branch # "none" /\ start.layer.runtime_jar_sha256 = NoValue)
      => branch = "miss"

\* C19: every step of the two blocks that read the debug flag is also a step
\* of the same block run with the flag inverted, under some outcome of its
\* writes: the flag changes no branch, no layer write, no fetch and no
\* outcome (no other step reads the flag).
C19_DebugOnlyLogs ==
    [][ /\ WriteRuntimeMetadata => WriteRuntimeMetadataWith(~heroku_debug)
        /\ Download => DownloadWith(~heroku_debug) ]_vars

\* C20: once error(title, body) has been called the build has failed, and
\* the failure returned carries the title as its message.
C20_ErrorCarriesTitle ==
    error_call # NoError =>
      /\ result = "err"
      /\ failure = error_call.header

====
